---------------------------- MODULE Spec2Model ----------------------------
(***************************************************************************)
(* Model of the BitStream writer of src/bit-stream.js.                     *)
(*                                                                         *)
(* JavaScript strings are sequences of one-character strings, a Buffer is  *)
(* a sequence of BUFFER_SIZE bytes, and the events handed to the           *)
(* stream's listeners are recorded, in order, in `emitted`.  A chunk is a   *)
(* slice of a Buffer and shares its memory: `mem` holds the Buffers that   *)
(* were allocated, in order, and which of them each chunk views; the       *)
(* Buffer this.buffer refers to is the one after those.  Every method      *)
(* is an operator from the object's fields (a record `t`, for `this`) to   *)
(* the fields after the call and the exception it threw, if any.           *)
(***************************************************************************)
EXTENDS Integers, Sequences, FiniteSets, TLC

\* The buffer's capacity.  src/bit-stream.js:5 sets 1024; the model scales it
\* down so that full buffers, exact fits and overflows are all reached.
BUFFER_SIZE == 4

\* The number of method calls made on one writer.
MaxOps == 3

VARIABLES
    bits,       \* this.bits: the pending bits, a string of '0'/'1'
    buffer,     \* this.buffer: the backing Buffer, or undefined once deleted
    offset,     \* this.offset: the index of the next free byte of buffer
    emitted,    \* the events emitted so far: data chunks and finish
    mem,        \* the memory of the Buffers this.buffer no longer refers to,
                \* and the Buffer and length each emitted chunk is a view of
    wrote,      \* history: the bits the caller asked to be written so far
    last,       \* history: the last call, its arguments, outcome and pre-state
    nops        \* history: the number of calls made

vars == <<bits, buffer, offset, emitted, mem, wrote, last, nops>>

-----------------------------------------------------------------------------
(* JavaScript values and library functions the methods use.                *)

\* The value of a deleted property.
undefined == <<>>

\* The result of String.prototype.match when nothing matches.
null == <<>>

\* Buffer.alloc(BUFFER_SIZE): a zero-filled buffer.
Alloc == [i \in 1..BUFFER_SIZE |-> 0]

\* Buffer.prototype.slice(0, end): the bytes [0, end) of buf.
Slice(buf, end) == SubSeq(buf, 1, end)

\* String.prototype.repeat
Repeat(c, n) == [i \in 1..n |-> c]

\* A test of the first character only.
HasNonBit_firstOnly(value) == Len(value) > 0 /\ value[1] \notin {"0", "1"}

\* /[^0-1]/.test(value)
HasNonBit(value) == \E i \in 1..Len(value) : value[i] \notin {"0", "1"}

\* A match of groups of up to 9 characters, /.{1,9}/g.
RECURSIVE Match8_groupsOf9(_)
Match8_groupsOf9(s) ==
    IF Len(s) = 0 THEN <<>>
    ELSE IF Len(s) <= 9 THEN <<s>>
    ELSE <<SubSeq(s, 1, 9)>> \o Match8_groupsOf9(SubSeq(s, 10, Len(s)))

\* (s).match(/.{1,8}/g): the greedy groups of up to 8 characters from the
\* front of s, or null when s is empty.
RECURSIVE Match8(_)
Match8(s) ==
    IF Len(s) = 0 THEN null
    ELSE IF Len(s) <= 8 THEN <<s>>
    ELSE <<SubSeq(s, 1, 8)>> \o Match8(SubSeq(s, 9, Len(s)))

\* Array.prototype.filter
RECURSIVE Filter(_, _)
Filter(arr, keep8) ==
    IF arr = <<>> THEN <<>>
    ELSE (IF (Len(Head(arr)) = 8) = keep8 THEN <<Head(arr)>> ELSE <<>>)
         \o Filter(Tail(arr), keep8)

\* parseInt reading the digits least-significant first.
RECURSIVE parseInt2_lsbFirst(_)
parseInt2_lsbFirst(byte) ==
    IF byte = <<>> THEN 0
    ELSE 2 * parseInt2_lsbFirst(Tail(byte))
         + (IF Head(byte) = "1" THEN 1 ELSE 0)

\* parseInt(byte, 2) of a string of binary digits.
RECURSIVE parseInt2(_)
parseInt2(byte) ==
    IF byte = <<>> THEN 0
    ELSE 2 * parseInt2(SubSeq(byte, 1, Len(byte) - 1))
         + (IF byte[Len(byte)] = "1" THEN 1 ELSE 0)

-----------------------------------------------------------------------------
(* Outcomes of a call.                                                     *)

Ok(t) == [this |-> t, err |-> "none"]
Throw(t, e) == [this |-> t, err |-> e]

\* Sequencing of statements: x is evaluated, once, and F continues with its
\* value (a LET would evaluate x anew at each use).
Then(x, F(_)) == CHOOSE y \in {F(v) : v \in {x}} : TRUE

\* this.emit(type, chunk)
Emit(t, type, chunk) ==
    [t EXCEPT !.emitted = Append(@, [type |-> type, chunk |-> chunk])]

-----------------------------------------------------------------------------
(* The methods.                                                            *)

\* this.buffer.slice(0, end): a view of the bytes [0, end) of the Buffer
\* this.buffer refers to, sharing its memory.
SliceView(t, end) ==
    [t EXCEPT !.mem.views = Append(@, [of |-> Len(t.mem.heap) + 1, len |-> end])]

\* this.buffer = Buffer.alloc(BUFFER_SIZE): this.buffer refers to a new
\* Buffer; the one it referred to keeps its memory.
Replace(t) ==
    [t EXCEPT !.mem.heap = Append(@, t.buffer), !.buffer = Alloc]

\* delete this.buffer: the property is undefined; the Buffer it referred to
\* keeps its memory.
Delete(t) ==
    [t EXCEPT !.mem.heap = Append(@, t.buffer), !.buffer = undefined]

\* flush() that zero-fills the buffer in place instead of allocating one.
flush_reusesBuffer(t) ==
    IF t.buffer = undefined THEN Throw(t, "TypeError")
    ELSE Ok([Emit(SliceView(t, t.offset), "data", Slice(t.buffer, t.offset))
                EXCEPT !.buffer = Alloc, !.offset = 0])

\* flush() that keeps the offset.
flush_keepsOffset(t) ==
    IF t.buffer = undefined THEN [this |-> t, err |-> "TypeError"]
    ELSE [this |-> [t EXCEPT !.emitted =
                        Append(@, [type |-> "data",
                                   chunk |-> SubSeq(t.buffer, 1, t.offset)]),
                      !.buffer = [i \in 1..BUFFER_SIZE |-> 0]],
          err |-> "none"]

\* flush(): reading .slice of a deleted buffer throws a TypeError before
\* anything is emitted.
flush(t) ==
    IF t.buffer = undefined THEN Throw(t, "TypeError")
    ELSE Ok([Replace(Emit(SliceView(t, t.offset), "data",
                          Slice(t.buffer, t.offset)))
                EXCEPT !.offset = 0])

\* The loop flushing one byte before the buffer is full.
RECURSIVE WriteComplete_flushesEarly(_, _)
WriteComplete_flushesEarly(t, complete) ==
    IF complete = <<>> THEN Ok(t)
    ELSE LET uint8 == parseInt2(Head(complete))
         IN  Then(IF t.offset = BUFFER_SIZE - 1 THEN flush(t) ELSE Ok(t), LAMBDA f :
             IF f.err # "none" THEN f
             ELSE IF f.this.buffer = undefined THEN Throw(f.this, "TypeError")
             ELSE Then([f.this EXCEPT !.buffer[f.this.offset + 1] = uint8,
                                      !.offset = @ + 1], LAMBDA u :
                  WriteComplete_flushesEarly(u, Tail(complete))))

\* The for loop of writeStringBits over the complete bytes.
RECURSIVE WriteComplete(_, _)
WriteComplete(t, complete) ==
    IF complete = <<>> THEN Ok(t)
    ELSE LET uint8 == parseInt2(Head(complete))
         IN  Then(IF t.offset = BUFFER_SIZE THEN flush(t) ELSE Ok(t), LAMBDA f :
             IF f.err # "none" THEN f
             ELSE IF f.this.buffer = undefined THEN Throw(f.this, "TypeError")
             ELSE Then([f.this EXCEPT !.buffer[f.this.offset + 1] = uint8,
                                      !.offset = @ + 1], LAMBDA u :
                  WriteComplete(u, Tail(complete))))

writeStringBits(t, value) ==
    IF HasNonBit(value) THEN Throw(t, "Error")
    ELSE Then(Match8(t.bits \o value), LAMBDA bytes :
         IF bytes = null THEN Throw(t, "TypeError")
         ELSE LET complete == Filter(bytes, TRUE)
                  leftover == Filter(bytes, FALSE)
              IN  Then(WriteComplete(t, complete), LAMBDA w :
                  IF w.err # "none" THEN w
                  ELSE Ok([w.this EXCEPT !.bits =
                             IF Len(leftover) # 0 THEN leftover[1] ELSE <<>>])))

\* align() that clears the pending bits without writing them.
align_dropsPending(t) == [this |-> [t EXCEPT !.bits = <<>>], err |-> "none"]

\* align()
align(t) ==
    IF t.bits # <<>>
    THEN LET padding == Repeat("0", 8 - Len(t.bits))
         IN  Then(writeStringBits(t, padding), LAMBDA w :
             IF w.err # "none" THEN w
             ELSE Ok([w.this EXCEPT !.bits = <<>>]))
    ELSE Ok(t)

\* end() without the final align().
end_withoutAlign(t) ==
    Then(flush(t), LAMBDA f :
    IF f.err # "none" THEN f
    ELSE Ok(Delete(Emit(f.this, "finish", <<>>))))

\* end() that keeps the buffer.
end_keepsBuffer(t) ==
    Then(align(t), LAMBDA a :
    IF a.err # "none" THEN a
    ELSE Then(flush(a.this), LAMBDA f :
         IF f.err # "none" THEN f
         ELSE Ok(Emit(f.this, "finish", <<>>))))

\* end(): delete this.buffer leaves the property undefined.
end(t) ==
    Then(align(t), LAMBDA a :
    IF a.err # "none" THEN a
    ELSE Then(flush(a.this), LAMBDA f :
         IF f.err # "none" THEN f
         ELSE Ok(Delete(Emit(f.this, "finish", <<>>)))))

\* Number.prototype.toString(10) of a non-negative integer.
RECURSIVE ToDecimal(_)
ToDecimal(n) ==
    LET digit == <<"0", "1", "2", "3", "4", "5", "6", "7", "8", "9">>[(n % 10) + 1]
    IN  IF n < 10 THEN <<digit>> ELSE ToDecimal(n \div 10) \o <<digit>>

\* Array.prototype.join('') of an array of non-negative integers.
RECURSIVE Join(_)
Join(value) ==
    IF value = <<>> THEN <<>>
    ELSE ToDecimal(Head(value)) \o Join(Tail(value))

\* writeArrayBits that joins with the default separator, a comma.
writeArrayBits_joinsWithComma(t, value) ==
    Then(IF Len(value) <= 1 THEN Join(value)
         ELSE ToDecimal(Head(value)) \o <<",">> \o Join(Tail(value)),
         LAMBDA joined : writeStringBits(t, joined))

\* writeArrayBits(value)
writeArrayBits(t, value) ==
    Then(Join(value), LAMBDA joined : writeStringBits(t, joined))

\* value >>> 0: the unsigned 32-bit integer value is congruent to modulo
\* 2^32, held as its two 16-bit halves (hi * 65536 + lo): TLC's integers
\* are signed 32-bit and cannot hold it whole.
ToUint32(value) == [hi |-> (value \div 65536) % 65536, lo |-> value % 65536]

\* Number.prototype.toString(2) of a non-negative integer.
RECURSIVE ToBinary(_)
ToBinary(n) ==
    LET digit == IF n % 2 = 1 THEN "1" ELSE "0"
    IN  IF n < 2 THEN <<digit>> ELSE ToBinary(n \div 2) \o <<digit>>

\* Number.prototype.toString(2) of an unsigned 32-bit integer: no leading
\* zeros, "0" for zero.
ToBinary32(u) ==
    IF u.hi = 0 THEN ToBinary(u.lo)
    ELSE LET low == ToBinary(u.lo)
         IN  ToBinary(u.hi) \o [i \in 1..(16 - Len(low)) |-> "0"] \o low

\* String.prototype.substr(start): from start to the end of s, a negative
\* start counting from the end; -0 is 0, the start of the string.
Substr(s, start) ==
    LET from == IF start < 0
                THEN (IF Len(s) + start > 0 THEN Len(s) + start ELSE 0)
                ELSE start
    IN  SubSeq(s, from + 1, Len(s))

\* writeIntBits whose upper check is off by one.
writeIntBits_allows33(t, value, bitLength) ==
    IF bitLength < 0 THEN Throw(t, "RangeError")
    ELSE IF bitLength > 33 THEN Throw(t, "RangeError")
    ELSE Then(ToBinary32(ToUint32(value)), LAMBDA binary :
         Then(Repeat(IF value < 0 THEN "1" ELSE "0", 32 - Len(binary))
              \o binary, LAMBDA padded :
         Then(Substr(padded, -bitLength), LAMBDA low :
         writeStringBits(t, low))))

\* writeIntBits(value, bitLength)
writeIntBits(t, value, bitLength) ==
    IF bitLength < 0 THEN Throw(t, "RangeError")
    ELSE IF bitLength > 32 THEN Throw(t, "RangeError")
    ELSE Then(ToBinary32(ToUint32(value)), LAMBDA binary :
         Then(Repeat(IF value < 0 THEN "1" ELSE "0", 32 - Len(binary))
              \o binary, LAMBDA padded :
         Then(Substr(padded, -bitLength), LAMBDA low :
         writeStringBits(t, low))))

\* beforeWriteAligned that aligns before it checks the length.
beforeWriteAligned_alignsFirst(t, byteLength) ==
    Then(align(t), LAMBDA a :
    IF a.err # "none" THEN a
    ELSE IF byteLength > BUFFER_SIZE THEN Throw(a.this, "RangeError")
    ELSE IF a.this.offset + byteLength >= BUFFER_SIZE
         THEN flush(a.this)
         ELSE a)

\* beforeWriteAligned that flushes one byte early.
beforeWriteAligned_flushesEarly(t, byteLength) ==
    IF byteLength > BUFFER_SIZE THEN Throw(t, "RangeError")
    ELSE Then(align(t), LAMBDA a :
         IF a.err # "none" THEN a
         ELSE IF a.this.offset + byteLength >= BUFFER_SIZE - 1
              THEN flush(a.this)
              ELSE a)

\* beforeWriteAligned that flushes only when the value does not fit.
beforeWriteAligned_flushesLate(t, byteLength) ==
    IF byteLength > BUFFER_SIZE THEN Throw(t, "RangeError")
    ELSE Then(align(t), LAMBDA a :
         IF a.err # "none" THEN a
         ELSE IF a.this.offset + byteLength > BUFFER_SIZE
              THEN flush(a.this)
              ELSE a)

\* beforeWriteAligned that never flushes.
beforeWriteAligned_neverFlushes(t, byteLength) ==
    IF byteLength > BUFFER_SIZE THEN Throw(t, "RangeError")
    ELSE align(t)

\* beforeWriteAligned(byteLength)
beforeWriteAligned(t, byteLength) ==
    IF byteLength > BUFFER_SIZE THEN Throw(t, "RangeError")
    ELSE Then(align(t), LAMBDA a :
         IF a.err # "none" THEN a
         ELSE IF a.this.offset + byteLength >= BUFFER_SIZE
              THEN flush(a.this)
              ELSE a)

-----------------------------------------------------------------------------
(* The codec: the Buffer methods the aligned writes delegate to.           *)

\* The UTF-8 encoding of a character (code points below U+0800).
Utf8(c) ==
    LET cp == CASE c = "0" -> 48 [] c = "1" -> 49 [] c = "A" -> 65
                [] c = "B" -> 66 [] c = "é" -> 233
    IN  IF cp < 128 THEN <<cp>> ELSE <<192 + (cp \div 64), 128 + (cp % 64)>>

\* The UTF-8 encoding of a string.
RECURSIVE Encode(_)
Encode(value) ==
    IF value = <<>> THEN <<>> ELSE Utf8(Head(value)) \o Encode(Tail(value))

\* Buffer.byteLength(value, 'utf8')
ByteLength(value) == Len(Encode(value))

\* The big-endian bytes of the unsigned integer n in byteLength bytes.
RECURSIVE BytesBE(_, _)
BytesBE(n, byteLength) ==
    IF byteLength = 0 THEN <<>>
    ELSE BytesBE(n \div 256, byteLength - 1) \o <<n % 256>>

\* buf with bytes stored at index at (0-based); bytes past the end of buf are
\* not stored.
Store(buf, bytes, at) ==
    [i \in 1..Len(buf) |->
        IF i > at /\ i <= at + Len(bytes) THEN bytes[i - at] ELSE buf[i]]

\* A fixed-width Buffer.prototype.write<Kind>(value, offset): a TypeError on
\* a deleted buffer, a RangeError when the bytes do not fit, else the bytes
\* are stored and the new offset returned.
WriteFixed(t, bytes) ==
    Then(bytes, LAMBDA stored :
    IF t.buffer = undefined THEN Throw(t, "TypeError")
    ELSE IF t.offset + Len(stored) > Len(t.buffer) THEN Throw(t, "RangeError")
    ELSE Ok([t EXCEPT !.buffer = Store(t.buffer, stored, t.offset),
                      !.offset = t.offset + Len(stored)]))

\* write(value, encoding = 'utf8'): Buffer.prototype.write stores the bytes
\* that fit and returns their number.
write(t, value) ==
    Then(Encode(value), LAMBDA encoded :
    Then(beforeWriteAligned(t, Len(encoded)), LAMBDA g :
    IF g.err # "none" THEN g
    ELSE IF g.this.buffer = undefined THEN Throw(g.this, "TypeError")
    ELSE LET byteLength == Len(encoded)
             fit == IF byteLength <= BUFFER_SIZE - g.this.offset
                    THEN byteLength ELSE BUFFER_SIZE - g.this.offset
         IN  Then(SubSeq(encoded, 1, fit), LAMBDA stored :
             Ok([g.this EXCEPT
                    !.buffer = Store(g.this.buffer, stored, g.this.offset),
                    !.offset = @ + fit]))))

\* writeUInt8(value)
writeUInt8(t, value) ==
    Then(beforeWriteAligned(t, 1), LAMBDA g :
    IF g.err # "none" THEN g ELSE WriteFixed(g.this, BytesBE(value, 1)))

\* writeUInt16BE(value)
writeUInt16BE(t, value) ==
    Then(beforeWriteAligned(t, 2), LAMBDA g :
    IF g.err # "none" THEN g ELSE WriteFixed(g.this, BytesBE(value, 2)))

\* writeInt32BE(value)
writeInt32BE(t, value) ==
    Then(beforeWriteAligned(t, 4), LAMBDA g :
    IF g.err # "none" THEN g
    ELSE LET u == ToUint32(value)
         IN  WriteFixed(g.this, BytesBE(u.hi, 2) \o BytesBE(u.lo, 2)))

-----------------------------------------------------------------------------
(* The state machine.                                                      *)

This ==
    [bits |-> bits, buffer |-> buffer, offset |-> offset, emitted |-> emitted,
     mem |-> mem]

Init ==
    /\ bits = <<>>
    /\ buffer = Alloc
    /\ offset = 0
    /\ emitted = <<>>
    /\ mem = [heap |-> <<>>, views |-> <<>>]
    /\ wrote = <<>>
    /\ last = [op |-> "constructor", value |-> <<>>, num |-> 0, len |-> 0,
               err |-> "none",
               pre |-> [bits |-> <<>>, buffer |-> Alloc, offset |-> 0,
                        emitted |-> <<>>,
                        mem |-> [heap |-> <<>>, views |-> <<>>]]]
    /\ nops = 0

\* The fields after a call that returned r.
Becomes(r) ==
    /\ bits' = r.this.bits
    /\ buffer' = r.this.buffer
    /\ offset' = r.this.offset
    /\ emitted' = r.this.emitted
    /\ mem' = r.this.mem
    /\ nops' = nops + 1

Called(op, value, num, len, r) ==
    last' = [op |-> op, value |-> value, num |-> num, len |-> len,
             err |-> r.err, pre |-> This]

-----------------------------------------------------------------------------
(* The arguments the calls are made with.                                  *)

\* A bit string one longer than fills the buffer twice over.
LongBits == [i \in 1..(16 * BUFFER_SIZE + 1) |-> IF i % 3 = 0 THEN "1" ELSE "0"]

\* writeStringBits: empty, short, a whole byte, more bytes than the buffer
\* holds, and strings with a character that is no bit, one of them after
\* eight bits.
StringInputs ==
    { <<>>,
      <<"1">>,
      <<"0","0","1","1">>,
      <<"1","0","0","0","0","0","0","1">>,
      LongBits,
      <<"0","2">>,
      <<"0","0","1","1","0","0","1","1","a">> }

\* writeArrayBits: the README's example, an array with a value that is no
\* bit, one whose values render to several digits, and the empty array.
ArrayInputs ==
    { <<0,0,0,1,1,0,0,0>>, <<1,2>>, <<10,1>>, <<>> }

\* writeIntBits: <<value, bitLength>>.
IntInputs ==
    { <<3, 8>>, <<-3, 32>>, <<-3, 3>>, <<5, 0>>, <<-2147483647 - 1, 31>>,
      <<3, -1>>, <<3, 33>>, <<-3, 33>> }

\* write: strings of 0, 1, 2 (one two-byte character), BUFFER_SIZE - 1,
\* BUFFER_SIZE and BUFFER_SIZE + 1 bytes.
WriteInputs ==
    { <<>>, <<"A">>, <<"é">>, Repeat("B", BUFFER_SIZE - 1),
      Repeat("A", BUFFER_SIZE), Repeat("A", BUFFER_SIZE + 1) }

-----------------------------------------------------------------------------
(* What the caller asked for, computed from the arguments alone.           *)

\* The bit values of a string of binary digits.
DigitBits(value) == [i \in 1..Len(value) |-> IF value[i] = "1" THEN 1 ELSE 0]

\* Bit i (0 the least significant) of the two's-complement form of the
\* 32-bit integer v: the sign from bit 31 on.
TwosBit(v, i) == IF i >= 31 THEN (IF v < 0 THEN 1 ELSE 0) ELSE (v \div (2 ^ i)) % 2

\* The least-significant b bits of v, most-significant first.
LowBits(v, b) == [i \in 1..b |-> TwosBit(v, b - i)]

\* The 8 bits of a byte, most-significant first.
ByteBits(n) == [i \in 1..8 |-> (n \div (2 ^ (8 - i))) % 2]

\* The bits of a sequence of bytes.
RECURSIVE BytesBits(_)
BytesBits(bytes) ==
    IF bytes = <<>> THEN <<>> ELSE ByteBits(Head(bytes)) \o BytesBits(Tail(bytes))

\* s followed by the zero bits that bring it to a byte boundary.
Padded(s) == s \o [i \in 1..((8 - (Len(s) % 8)) % 8) |-> 0]

-----------------------------------------------------------------------------
(* The calls.                                                              *)

\* A call that threw asks for nothing; one that returned asks for `asked`.
Asks(r, asked) == wrote' = IF r.err = "none" THEN asked ELSE wrote

WriteStringBits ==
    /\ nops < MaxOps
    /\ \E value \in StringInputs :
         \E r \in {writeStringBits(This, value)} :
             /\ Becomes(r)
             /\ Called("writeStringBits", value, 0, 0, r)
             /\ Asks(r, wrote \o DigitBits(value))

WriteArrayBits ==
    /\ nops < MaxOps
    /\ \E value \in ArrayInputs :
         \E r \in {writeArrayBits(This, value)} :
             /\ Becomes(r)
             /\ Called("writeArrayBits", value, 0, 0, r)
             /\ Asks(r, wrote \o DigitBits(Join(value)))

WriteIntBits ==
    /\ nops < MaxOps
    /\ \E in \in IntInputs :
         \E r \in {writeIntBits(This, in[1], in[2])} :
             /\ Becomes(r)
             /\ Called("writeIntBits", <<>>, in[1], in[2], r)
             /\ Asks(r, wrote \o LowBits(in[1], in[2]))

Align ==
    /\ nops < MaxOps
    /\ \E r \in {align(This)} :
           /\ Becomes(r)
           /\ Called("align", <<>>, 0, 0, r)
           /\ Asks(r, Padded(wrote))

Flush ==
    /\ nops < MaxOps
    /\ \E r \in {flush(This)} :
           /\ Becomes(r)
           /\ Called("flush", <<>>, 0, 0, r)
           /\ Asks(r, wrote)

End ==
    /\ nops < MaxOps
    /\ \E r \in {end(This)} :
           /\ Becomes(r)
           /\ Called("end", <<>>, 0, 0, r)
           /\ Asks(r, Padded(wrote))

Write ==
    /\ nops < MaxOps
    /\ \E value \in WriteInputs :
         \E r \in {write(This, value)} :
             /\ Becomes(r)
             /\ Called("write", value, 0, ByteLength(value), r)
             /\ Asks(r, Padded(wrote) \o BytesBits(Encode(value)))

WriteUInt8 ==
    /\ nops < MaxOps
    /\ \E value \in {129} :
         \E r \in {writeUInt8(This, value)} :
             /\ Becomes(r)
             /\ Called("writeUInt8", <<>>, value, 1, r)
             /\ Asks(r, Padded(wrote) \o ByteBits(value))

WriteUInt16BE ==
    /\ nops < MaxOps
    /\ \E value \in {258} :
         \E r \in {writeUInt16BE(This, value)} :
             /\ Becomes(r)
             /\ Called("writeUInt16BE", <<>>, value, 2, r)
             /\ Asks(r, Padded(wrote) \o LowBits(value, 16))

WriteInt32BE ==
    /\ nops < MaxOps
    /\ \E value \in {-3} :
         \E r \in {writeInt32BE(This, value)} :
             /\ Becomes(r)
             /\ Called("writeInt32BE", <<>>, value, 4, r)
             /\ Asks(r, Padded(wrote) \o LowBits(value, 32))

Next ==
    \/ WriteStringBits
    \/ WriteArrayBits
    \/ WriteIntBits
    \/ Align
    \/ Flush
    \/ End
    \/ Write
    \/ WriteUInt8
    \/ WriteUInt16BE
    \/ WriteInt32BE

Spec == Init /\ [][Next]_vars

-----------------------------------------------------------------------------
(* The output of a writer, as its consumer sees it.                        *)

\* The bytes of the data chunks among the events ev, in emission order.
RECURSIVE Chunks(_)
Chunks(ev) ==
    IF ev = <<>> THEN <<>>
    ELSE (IF Head(ev).type = "data" THEN Head(ev).chunk ELSE <<>>)
         \o Chunks(Tail(ev))

\* The byte stream: the chunks emitted, then the filled part of the buffer.
ByteStream(t) ==
    Chunks(t.emitted)
    \o (IF t.buffer = undefined THEN <<>> ELSE Slice(t.buffer, t.offset))

\* The bit stream: the byte stream, then the pending bits.
BitStream(t) == BytesBits(ByteStream(t)) \o DigitBits(t.bits)

\* The value of a binary numeral, most-significant digit first.
RECURSIVE Numeral(_, _)
Numeral(s, acc) ==
    IF s = <<>> THEN acc
    ELSE Numeral(Tail(s), 2 * acc + (IF Head(s) = "1" THEN 1 ELSE 0))

\* The last call was made on a writer that had not been ended.
Live == last.pre.buffer # undefined

\* Every character of s is a binary digit.
ValidBits(s) == \A i \in 1..Len(s) : s[i] = "0" \/ s[i] = "1"

\* The last call left every field and the events as they were.
Untouched == This = last.pre

-----------------------------------------------------------------------------
(* C1 to C4                                                                *)

\* C1: on a writer that has not been ended, the chunks emitted so far, then
\* the filled part of the buffer, then the pending bits are, bit for bit and
\* in call order, the bits the caller wrote, with zero bits only where an
\* align padded a partial byte.
C1_StreamIsWhatWasWritten ==
    buffer # undefined => BitStream(This) = wrote

\* C2: writeIntBits(v, b) with b in [0, 32] appends exactly b bits, the
\* least-significant b bits of v's 32-bit two's-complement form.
C2_IntBitsAreLowBits ==
    (last.op = "writeIntBits" /\ Live /\ last.len \in 0..32)
        => BitStream(This)
             = BitStream(last.pre) \o LowBits(last.num, last.len)

\* C3: writeStringBits of a valid bit string s onto p pending bits appends
\* floor((p + |s|) / 8) bytes, the consecutive groups of 8 characters of
\* pending ++ s read as binary numerals, and leaves the last
\* (p + |s|) mod 8 characters pending.
C3_StringBitsGroups ==
    (last.op = "writeStringBits" /\ Live /\ ValidBits(last.value))
        => LET all == last.pre.bits \o last.value
               n == Len(all) \div 8
           IN  /\ ByteStream(This)
                    = ByteStream(last.pre)
                      \o [k \in 1..n |->
                            Numeral(SubSeq(all, 8 * k - 7, 8 * k), 0)]
               /\ bits = SubSeq(all, 8 * n + 1, Len(all))
               /\ Len(bits) = Len(all) % 8

\* C3's case: a write that completes a byte from pending bits and new bits
\* and leaves a remainder; and the README's "0011" twice giving 0x33.
C3_Witness ==
    /\ last.op = "writeStringBits" /\ Live /\ last.err = "none"
    /\ last.value = <<"0","0","1","1">>
    /\ last.pre.bits = <<"0","0","1","1">>
    /\ ByteStream(This) = <<51>>
    /\ bits = <<>>

\* C4: on a writer that has not been ended, align() with k pending bits
\* (1..7) appends the one byte of those bits followed by 8 - k zeros and
\* leaves nothing pending; with nothing pending it changes and emits
\* nothing; so a second align() right after an align() changes nothing.
C4_AlignPadsOnce ==
    /\ (last.op = "align" /\ Live /\ last.pre.bits # <<>>)
          => /\ last.err = "none"
             /\ ByteStream(This)
                  = ByteStream(last.pre)
                    \o <<Numeral(last.pre.bits
                                 \o [i \in 1..(8 - Len(last.pre.bits)) |-> "0"],
                                 0)>>
             /\ bits = <<>>
    /\ (last.op = "align" /\ last.pre.bits = <<>>)
          => (last.err = "none" /\ Untouched)
    /\ buffer # undefined
          => (align(align(This).this) = align(This))

\* C4's case: align() of the four pending bits 0011 gives the byte 0x30.
C4_Witness ==
    /\ last.op = "align" /\ Live
    /\ last.pre.bits = <<"0","0","1","1">>
    /\ ByteStream(This) = ByteStream(last.pre) \o <<48>>
    /\ bits = <<>>

-----------------------------------------------------------------------------
(* C5 to C10                                                               *)

\* The events the last call emitted.
Emitted == SubSeq(emitted, Len(last.pre.emitted) + 1, Len(emitted))

\* The last call was an aligned write.
AlignedWrite == last.op \in {"write", "writeUInt8", "writeUInt16BE", "writeInt32BE"}

\* C5, as claimed: end() on a writer that has not been ended leaves nothing
\* pending and emits exactly one data chunk, then exactly one finish.
C5_EndEmitsOneChunk ==
    (last.op = "end" /\ Live)
        => /\ bits = <<>>
           /\ Len(Emitted) = 2
           /\ Emitted[1].type = "data"
           /\ Emitted[2].type = "finish"

\* C5, amended: end() on a writer that has not been ended leaves nothing
\* pending and emits one data chunk, or two when the cursor is at capacity
\* with bits pending (the full buffer, then the padded byte), the chunks
\* holding the bytes of the buffer and the padded pending byte, and then
\* exactly one finish; and no event ever follows a finish.
C5_EndEmitsChunksThenFinish ==
    /\ (last.op = "end" /\ Live)
          => LET full == last.pre.offset = BUFFER_SIZE /\ last.pre.bits # <<>>
                 n == Len(Emitted)
             IN  /\ last.err = "none"
                 /\ bits = <<>>
                 /\ n = IF full THEN 3 ELSE 2
                 /\ \A i \in 1..(n - 1) : Emitted[i].type = "data"
                 /\ Emitted[n].type = "finish"
                 /\ full => Emitted[1].chunk
                              = Slice(last.pre.buffer, BUFFER_SIZE)
                 /\ Chunks(Emitted)
                      = Slice(last.pre.buffer, last.pre.offset)
                        \o (IF last.pre.bits = <<>> THEN <<>>
                            ELSE <<Numeral(last.pre.bits, 0)
                                   * 2 ^ (8 - Len(last.pre.bits))>>)
    /\ \A i \in 1..Len(emitted) :
          emitted[i].type = "finish" => i = Len(emitted)

\* C5's case: end() with the cursor at capacity and bits pending.
C5_Witness ==
    /\ last.op = "end" /\ Live
    /\ last.pre.offset = BUFFER_SIZE
    /\ last.pre.bits # <<>>
    /\ Len(Emitted) = 3

\* C6: an aligned write of more bytes than the buffer holds fails with the
\* capacity error in every state, and leaves the cursor, the buffer and the
\* pending bits as they were and emits nothing.
C6_TooLongIsRejected ==
    (AlignedWrite /\ last.len > BUFFER_SIZE)
        => (last.err = "RangeError" /\ Untouched)

\* C6's case: a too long write rejected while bits are pending.
C6_Witness ==
    /\ last.op = "write" /\ Live
    /\ last.len > BUFFER_SIZE
    /\ last.err = "RangeError"
    /\ bits # <<>>

\* C7: writeStringBits of a string with a character other than '0' and '1',
\* at any position, fails with the format error and leaves the pending
\* bits, the buffer and the cursor as they were and emits nothing.
C7_BadFormatIsRejected ==
    (last.op = "writeStringBits" /\ ~ValidBits(last.value))
        => (last.err = "Error" /\ Untouched)

\* C7's case: a bad character after eight good ones, with bits pending.
C7_Witness ==
    /\ last.op = "writeStringBits" /\ Live
    /\ Len(last.value) > 8
    /\ ValidBits(SubSeq(last.value, 1, 8))
    /\ ~ValidBits(last.value)
    /\ last.err = "Error"
    /\ bits # <<>>

\* The fields after the align() of the last call, an aligned write.
Aligned == align(last.pre).this

\* The guard of the last call, an aligned write, flushed.
GuardFlushed == Len(emitted) > Len(Aligned.emitted)

\* C8, as claimed: an aligned write flushes before writing only when the
\* value does not fit in the free slots [cursor, capacity) after alignment.
C8_FlushOnlyWhenNoRoom ==
    (AlignedWrite /\ Live /\ last.err = "none" /\ GuardFlushed)
        => Aligned.offset + last.len > BUFFER_SIZE

\* C8, amended: an aligned write flushes before writing only when
\* cursor + byteLength >= capacity after alignment, so also when the value
\* would fit exactly; when it flushes, the value is then written from
\* cursor 0 of the new buffer.
C8_FlushOnlyWhenReachesCapacity ==
    (AlignedWrite /\ Live /\ last.err = "none" /\ GuardFlushed)
        => /\ Aligned.offset + last.len >= BUFFER_SIZE
           /\ offset = last.len
           /\ BytesBits(Slice(buffer, last.len))
                = SubSeq(wrote, Len(wrote) - 8 * last.len + 1, Len(wrote))
           /\ emitted[Len(emitted)].chunk
                = Slice(Aligned.buffer, Aligned.offset)

\* C8's case: two bytes written with one free slot left: the guard flushes
\* and the value lands at cursor 0.
C8_Witness ==
    /\ last.op = "writeUInt16BE" /\ Live /\ last.err = "none"
    /\ Aligned.offset = BUFFER_SIZE - 1
    /\ GuardFlushed
    /\ offset = 2
    /\ Slice(buffer, 2) = <<1, 2>>

\* C9: flush() on a writer that has not been ended emits exactly one chunk,
\* the bytes [0, cursor) of the buffer, replaces the buffer with an all-zero
\* one of the same capacity, sets the cursor to 0 and leaves the pending
\* bits as they were; with the cursor at 0 the chunk is empty.
C9_FlushEmitsAndResets ==
    (last.op = "flush" /\ Live)
        => /\ last.err = "none"
           /\ Emitted = <<[type |-> "data",
                           chunk |-> [i \in 1..last.pre.offset |->
                                        last.pre.buffer[i]]]>>
           /\ Len(buffer) = Len(last.pre.buffer)
           /\ \A i \in 1..Len(buffer) : buffer[i] = 0
           /\ offset = 0
           /\ bits = last.pre.bits
           /\ (last.pre.offset = 0 => Emitted[1].chunk = <<>>)

\* C9's case: a flush of a buffer holding bytes, with bits pending.
C9_Witness ==
    /\ last.op = "flush" /\ Live
    /\ last.pre.offset > 0
    /\ last.pre.bits # <<>>
    /\ Len(Emitted[1].chunk) = last.pre.offset

\* C10: writeStringBits of the empty string on a writer that has not been
\* ended returns without error and changes and emits nothing, whether bits
\* are pending or not.
C10_EmptyStringIsNoOp ==
    (last.op = "writeStringBits" /\ Live /\ last.value = <<>>)
        => (last.err = "none" /\ Untouched)

-----------------------------------------------------------------------------
(* C11 to C18                                                              *)

\* C11: writeIntBits with a bitLength below 0 or above 32 fails with a range
\* error for every value, in every state, and leaves the pending bits, the
\* buffer and the cursor as they were and emits nothing.
C11_BadBitLengthIsRejected ==
    (last.op = "writeIntBits" /\ (last.len < 0 \/ last.len > 32))
        => (last.err = "RangeError" /\ Untouched)

\* C11's case: a bitLength of 33 rejected for a negative value, with bytes
\* in the buffer and bits pending.
C11_Witness ==
    /\ last.op = "writeIntBits" /\ Live
    /\ last.num < 0 /\ last.len = 33
    /\ last.err = "RangeError"
    /\ offset > 0 /\ bits # <<>>

\* The decimal digits a non-negative number renders to.
RECURSIVE Rendering(_)
Rendering(n) ==
    IF n >= 10 THEN Rendering(n \div 10) \o Rendering(n % 10)
    ELSE <<CASE n = 0 -> "0" [] n = 1 -> "1" [] n = 2 -> "2" [] n = 3 -> "3"
             [] n = 4 -> "4" [] n = 5 -> "5" [] n = 6 -> "6" [] n = 7 -> "7"
             [] n = 8 -> "8" [] n = 9 -> "9">>

\* The concatenation of the renderings of the first k values.
RECURSIVE Renderings(_, _)
Renderings(values, k) ==
    IF k = 0 THEN <<>> ELSE Renderings(values, k - 1) \o Rendering(values[k])

\* C12: writeArrayBits(values) has the outcome of writeStringBits of the
\* concatenation of the values' digit renderings, in every state: the same
\* pending bits, buffer, cursor and chunks on success, and the same
\* rejection with nothing changed when a character is no bit.
C12_ArrayBitsIsStringBits ==
    last.op = "writeArrayBits"
        => LET s == writeStringBits(last.pre,
                                    Renderings(last.value, Len(last.value)))
           IN  /\ This = s.this
               /\ last.err = s.err
               /\ (~ValidBits(Renderings(last.value, Len(last.value)))
                     => (last.err = "Error" /\ Untouched))

\* C12's case: the README's [0,0,0,1,1,0,0,0] gives the single byte 0x18.
C12_Witness ==
    /\ last.op = "writeArrayBits" /\ Live /\ last.err = "none"
    /\ last.value = <<0,0,0,1,1,0,0,0>>
    /\ last.pre.bits = <<>>
    /\ ByteStream(This) = ByteStream(last.pre) \o <<24>>
    /\ bits = <<>>

\* C13: after every call, accepted or rejected, on a writer that has not been
\* ended, 0 <= cursor <= capacity and between 0 and 7 bits are pending.
C13_CursorAndPendingInRange ==
    buffer # undefined
        => /\ offset >= 0 /\ offset <= BUFFER_SIZE
           /\ Len(bits) >= 0 /\ Len(bits) <= 7
           /\ Len(buffer) = BUFFER_SIZE

\* C13's case: both at their upper ends, the cursor at capacity with 7 bits
\* pending.
C13_Witness ==
    /\ buffer # undefined
    /\ offset = BUFFER_SIZE
    /\ Len(bits) = 7

\* C14: in the guard of an aligned write of at most capacity bytes on a
\* writer that has not been ended, after align() a flush is performed exactly
\* when cursor + byteLength >= capacity, also on an exact fit: the chunk
\* [0, cursor) is emitted and the codec writes from cursor 0; otherwise the
\* guard emits nothing and the codec writes from the cursor.
C14_GuardFlushesAtCapacity ==
    (AlignedWrite /\ Live /\ last.len <= BUFFER_SIZE)
        => /\ last.err = "none"
           /\ IF Aligned.offset + last.len >= BUFFER_SIZE
              THEN /\ emitted
                        = Aligned.emitted
                          \o <<[type |-> "data",
                                chunk |-> Slice(Aligned.buffer, Aligned.offset)]>>
                   /\ offset = last.len
              ELSE /\ emitted = Aligned.emitted
                   /\ offset = Aligned.offset + last.len

\* C14's case: an exact fit, two bytes with two free slots: the guard flushes
\* the filled part and the value is written from cursor 0.
C14_Witness ==
    /\ last.op = "writeUInt16BE" /\ Live /\ last.err = "none"
    /\ Aligned.offset = BUFFER_SIZE - 2
    /\ Len(emitted[Len(emitted)].chunk) = BUFFER_SIZE - 2
    /\ offset = 2

\* The bits of the value of the last call, an aligned write.
ValueBits == SubSeq(wrote, Len(wrote) - 8 * last.len + 1, Len(wrote))

\* C15: after an aligned write of at most capacity bytes on a writer that has
\* not been ended, nothing is pending, the value's bytes lie whole in the
\* current buffer, ending at the cursor, which has advanced by their number
\* from where the guard left it, and in the byte stream they follow the
\* earlier bytes and the zero-padded byte of the bits that were pending.
C15_ValueWholeOnByteBoundary ==
    (AlignedWrite /\ Live /\ last.len <= BUFFER_SIZE)
        => /\ last.err = "none"
           /\ bits = <<>>
           /\ offset <= BUFFER_SIZE
           /\ offset = (IF GuardFlushed THEN 0 ELSE Aligned.offset) + last.len
           /\ BytesBits(SubSeq(buffer, offset - last.len + 1, offset))
                = ValueBits
           /\ BytesBits(ByteStream(This))
                = BytesBits(ByteStream(last.pre))
                  \o Padded(DigitBits(last.pre.bits))
                  \o ValueBits

\* C15's case: a two-byte character written with bits pending and the cursor
\* one short of capacity: the padded byte fills the buffer, the guard
\* flushes it, and both bytes of the value land in the new buffer.
C15_Witness ==
    /\ last.op = "write" /\ Live /\ last.err = "none"
    /\ last.len = 2
    /\ last.pre.bits # <<>>
    /\ last.pre.offset = BUFFER_SIZE - 1
    /\ Slice(buffer, offset) = <<195, 169>>

\* The bit string the last call, a writeStringBits or an align, wrote.
BitsGiven ==
    IF last.op = "align"
    THEN [i \in 1..(8 - Len(last.pre.bits)) |-> "0"]
    ELSE last.value

CompletesByte ==
    \/ last.op = "align" /\ last.pre.bits # <<>>
    \/ /\ last.op = "writeStringBits"
       /\ ValidBits(last.value)
       /\ Len(last.pre.bits) + Len(last.value) >= 8
    \/ /\ last.op = "writeArrayBits"
       /\ ValidBits(Renderings(last.value, Len(last.value)))
       /\ Len(last.pre.bits) + Len(Renderings(last.value, Len(last.value))) >= 8
    \/ /\ last.op = "writeIntBits"
       /\ last.len >= 1 /\ last.len <= 32
       /\ Len(last.pre.bits) + last.len >= 8

\* C17: finish is emitted at most once and nothing is emitted after it: once
\* end() has returned no call emits anything or brings the buffer back, and
\* every flush(), end(), aligned write, and bit-level write or align that
\* completes a byte fails and changes nothing.
C17_NothingAfterFinish ==
    /\ \A i \in 1..Len(emitted) : \A j \in 1..Len(emitted) :
          emitted[i].type = "finish" => j <= i
    /\ ~Live
          => /\ emitted = last.pre.emitted
             /\ buffer = undefined
             /\ emitted # <<>>
             /\ emitted[Len(emitted)].type = "finish"
    /\ (~Live /\ (last.op \in {"flush", "end"} \/ AlignedWrite \/ CompletesByte))
          => (last.err # "none" /\ Untouched)

\* C17's case: an align that would complete a byte after end() has returned,
\* the bits having been written after the end.
C17_Witness ==
    /\ ~Live
    /\ last.op = "align"
    /\ last.pre.bits # <<>>
    /\ last.err = "TypeError"
    /\ emitted[Len(emitted)].type = "finish"

\* The data chunks among the events emitted, in order.
IsData(e) == e.type = "data"
DataChunks == SelectSeq(emitted, IsData)

\* The bytes the holder of a view reads now.
Seen(view) ==
    Slice(IF view.of <= Len(mem.heap) THEN mem.heap[view.of] ELSE buffer,
          view.len)

\* C18: the bytes of every chunk handed downstream stay as they were when it
\* was emitted, whatever the writer does later: no chunk is a view of the
\* buffer the writer writes to, flush having replaced it; and every chunk is
\* at most capacity bytes long.
C18_ChunksArePrivate ==
    /\ Len(mem.views) = Len(DataChunks)
    /\ \A i \in 1..Len(DataChunks) :
          /\ Seen(mem.views[i]) = DataChunks[i].chunk
          /\ mem.views[i].of <= Len(mem.heap)
          /\ Len(DataChunks[i].chunk) <= BUFFER_SIZE

\* C18's case: a chunk of bytes was emitted, and a later call has written
\* other bytes at the same indexes of the writer's buffer.
C18_Witness ==
    /\ buffer # undefined
    /\ last.err = "none"
    /\ Len(last.pre.emitted) >= 1
    /\ last.pre.offset = 0
    /\ offset >= 1
    /\ Len(DataChunks[1].chunk) >= 1
    /\ buffer[1] # DataChunks[1].chunk[1]
    /\ Seen(mem.views[1]) = DataChunks[1].chunk

=============================================================================
